---- MODULE Spec2Model ----
(***************************************************************************)
(* Model of the BetterBluetoothAudio plugin (src/MyPlugin/index.js): the   *)
(* plugin lifecycle (onStart/onStop and the patch handles), the four       *)
(* interception handlers, the deferred enforcement pass, and the pure      *)
(* device classification and selection they use.                           *)
(*                                                                         *)
(* JavaScript strings are modelled as sequences of one-character strings,  *)
(* so that toLowerCase() and includes() are computed, not assumed.         *)
(***************************************************************************)
EXTENDS Integers, Sequences, FiniteSets, TLC

\* ------------------------------------------------------------------ bounds
MaxDevs == 2       \* longest device list the platform reports
MaxTimers == 2     \* most one-shot timers pending at once
MaxStarts == 2     \* most onStart() calls in a run

\* --------------------------------------------------------------------- state
VARIABLES
    resolver,          \* what the host's module resolver and window.webkit return
    AudioManager,      \* module-level reference (Undefined until initializeModules)
    MediaEngine,       \* module-level reference; equal to AudioManager when one object
    VoiceConnection,   \* module-level reference
    patches,           \* this.patches
    live,              \* patcher: the handles whose handler is installed
    invoked,           \* patcher: handle -> number of times its unpatch was invoked
    starts,            \* number of onStart() calls so far
    phase,             \* "new", "started" (onStart returned), "stopped" (onStop returned)
    timers,            \* pending one-shot timers of the connect handler
    inputDevices,      \* platform: the input devices it reports now
    outputDevices,     \* platform: the output devices it reports now
    channelId,         \* voice store: the channel of the current user
    op,                \* the last step
    fired,             \* how many plugin handlers ran in the last step
    argIn,             \* last step: the device id the host call proposed
    argOut,            \* last step: the device id the host call proceeds with
    calls,             \* last step: the collaborator calls the plugin made, in order
    threw,             \* last step: the calls that threw
    cfgIn,             \* last step: the session config before the handlers
    cfgOut,            \* last step: the session config after the handlers
    lookup,            \* last step: how the voice/user store lookups went
    escaped,           \* last step: an exception left the plugin's own code
    changed,           \* the platform reported other device lists while a timer was pending
    stack,             \* the call stack of the event being dispatched call by call
    passLog            \* the set-device commands of the last two passes in which nothing
                       \* threw, since the platform last reported other device lists

vars == <<resolver, AudioManager, MediaEngine, VoiceConnection, patches, live, invoked,
          starts, phase, timers, inputDevices, outputDevices, channelId,
          op, fired, argIn, argOut, calls, threw, cfgIn, cfgOut, lookup, escaped,
          changed, stack, passLog>>

modules == <<resolver, AudioManager, MediaEngine, VoiceConnection>>
lifecycle == <<patches, live, invoked, starts, phase>>
platform == <<inputDevices, outputDevices, channelId>>

\* ----------------------------------------------------------------- strings
sDefault == <<"d", "e", "f", "a", "u", "l", "t">>  \* "default"
sBuiltInMic == <<"b", "u", "i", "l", "t", "-", "i", "n", "-", "m", "i", "c">>  \* "built-in-mic"
sBtAirpods1 == <<"b", "t", "-", "a", "i", "r", "p", "o", "d", "s", "-", "1">>  \* "bt-airpods-1"
sBtAirpods1Hfp == <<"b", "t", "-", "a", "i", "r", "p", "o", "d", "s", "-", "1", "-", "h", "f", "p">>  \* "bt-airpods-1-hfp"
sBeats7 == <<"B", "e", "a", "t", "s", "-", "7">>  \* "Beats-7"
sSpeaker == <<"s", "p", "e", "a", "k", "e", "r">>  \* "speaker"
sEmpty == << >>  \* ""
nIPhoneMicrophone == <<"i", "P", "h", "o", "n", "e", " ", "M", "i", "c", "r", "o", "p", "h", "o", "n", "e">>  \* "iPhone Microphone"
nAirPods == <<"A", "i", "r", "P", "o", "d", "s">>  \* "AirPods"
nAirPodsHandsFree == <<"A", "i", "r", "P", "o", "d", "s", " ", "H", "a", "n", "d", "s", "-", "F", "r", "e", "e">>  \* "AirPods Hands-Free"
nMic == <<"M", "i", "c">>  \* "Mic"
nMyIPhoneBeats == <<"M", "y", " ", "i", "P", "h", "o", "n", "e", " ", "B", "e", "a", "t", "s">>  \* "My iPhone Beats"
nSpeaker == <<"S", "p", "e", "a", "k", "e", "r">>  \* "Speaker"
kBluetooth == <<"b", "l", "u", "e", "t", "o", "o", "t", "h">>  \* "bluetooth"
kBt == <<"b", "t", "-">>  \* "bt-"
kAirpods == <<"a", "i", "r", "p", "o", "d", "s">>  \* "airpods"
kBeats == <<"b", "e", "a", "t", "s">>  \* "beats"
kSony == <<"s", "o", "n", "y">>  \* "sony"
kBose == <<"b", "o", "s", "e">>  \* "bose"
kHandsFree == <<"h", "a", "n", "d", "s", "-", "f", "r", "e", "e">>  \* "hands-free"
kHfp == <<"h", "f", "p">>  \* "hfp"
kA2dp == <<"a", "2", "d", "p">>  \* "a2dp"
kIphone == <<"i", "p", "h", "o", "n", "e">>  \* "iphone"
kBuiltIn == <<"b", "u", "i", "l", "t", "-", "i", "n">>  \* "built-in"

\* null / undefined as a device id (falsy, like the empty string)
Null == <<"<null>">>
\* a module-level reference that did not resolve
Undefined == "undefined"

LowerOf == [A |-> "a", B |-> "b", C |-> "c", D |-> "d", E |-> "e", F |-> "f", G |-> "g", H |-> "h", I |-> "i", J |-> "j", K |-> "k", L |-> "l", M |-> "m", N |-> "n", O |-> "o", P |-> "p", Q |-> "q", R |-> "r", S |-> "s", T |-> "t", U |-> "u", V |-> "v", W |-> "w", X |-> "x", Y |-> "y", Z |-> "z"]

\* String.prototype.toLowerCase
toLowerCase(s) == [i \in 1..Len(s) |-> IF s[i] \in DOMAIN LowerOf THEN LowerOf[s[i]] ELSE s[i]]

\* String.prototype.includes
includes(s, sub) == \E i \in 1..(Len(s) - Len(sub) + 1) : SubSeq(s, i, i + Len(sub) - 1) = sub

Range(seq) == {seq[i] : i \in 1..Len(seq)}

\* Array.prototype.find, as the index of the first element that is in S (0: none)
FindIndex(list, S) ==
    IF \E i \in 1..Len(list) : list[i] \in S
    THEN CHOOSE i \in 1..Len(list) : list[i] \in S /\ \A j \in 1..(i - 1) : list[j] \notin S
    ELSE 0

\* ------------------------------------------------------- DeviceClassifier
bluetoothIndicators == <<kBluetooth, kBt, kAirpods, kBeats, kSony, kBose, kHandsFree, kHfp, kA2dp>>

\* the classifier failing open on a null or empty id
isBluetoothDevice_FailOpen(deviceId) ==
    IF deviceId = Null \/ deviceId = sEmpty
    THEN TRUE
    ELSE \E k \in 1..Len(bluetoothIndicators) : includes(toLowerCase(deviceId), bluetoothIndicators[k])

\* if (!deviceId) return false; return bluetoothIndicators.some(...)
isBluetoothDevice(deviceId) ==
    IF deviceId = Null \/ deviceId = sEmpty
    THEN FALSE
    ELSE \E k \in 1..Len(bluetoothIndicators) : includes(toLowerCase(deviceId), bluetoothIndicators[k])

\* the predicate of the find() in enforceAudioRouting
IsEnforceMic(device) ==
    \/ includes(toLowerCase(device.name), kIphone)
    \/ includes(toLowerCase(device.name), kBuiltIn)
    \/ device.id = sDefault

\* the predicate of the find() in getBuiltInMicrophoneId
IsBuiltInMic(device) ==
    \/ includes(toLowerCase(device.name), kIphone)
    \/ includes(toLowerCase(device.name), kBuiltIn)
    \/ device.id = sDefault
    \/ device.id = sBuiltInMic

\* the hands-free exclusion without toLowerCase()
IsBluetoothOutput_CaseSensitive(device) ==
    /\ isBluetoothDevice(device.id)
    /\ ~includes(device.name, kHandsFree)

\* the predicate of the find() over the output devices (both copies are the same)
IsBluetoothOutput(device) ==
    /\ isBluetoothDevice(device.id)
    /\ ~includes(toLowerCase(device.name), kHandsFree)

\* ------------------------------------------------------------------- devices
Device(id, name) == [id |-> id, name |-> name]

MicPhone == Device(sDefault, nIPhoneMicrophone)
MicPods == Device(sBtAirpods1, nAirPods)
MicReserved == Device(sBuiltInMic, nMic)
MicBeats == Device(sBeats7, nMyIPhoneBeats)
OutPods == Device(sBtAirpods1, nAirPods)
OutHfp == Device(sBtAirpods1Hfp, nAirPodsHandsFree)
OutSpeaker == Device(sSpeaker, nSpeaker)

InputUniverse == {MicPhone, MicPods, MicReserved, MicBeats}
OutputUniverse == {OutPods, OutHfp, OutSpeaker}

\* the lists the platform may report: no device twice, at most MaxDevs long
ListsOf(U) ==
    UNION {{l \in [1..k -> U] : \A a, b \in 1..k : a /= b => l[a] /= l[b]} : k \in 0..MaxDevs}

\* the device ids a host call may propose
ProposedIds == {Null, sEmpty, sDefault, sBtAirpods1, sBeats7}

\* the device lists of the specification's scenario
ScenarioInputs == <<MicPhone, MicPods>>
ScenarioOutputs == <<OutPods, OutHfp>>

\* The classification of every id and device of the model, computed once from the
\* predicates above (the handlers below look the answers up here).
IdUniverse == ProposedIds \cup {d.id : d \in InputUniverse \cup OutputUniverse}
BluetoothIds == UNION {IF isBluetoothDevice(id) THEN {id} ELSE {} : id \in IdUniverse}
EnforceMics == UNION {IF IsEnforceMic(d) THEN {d} ELSE {} : d \in InputUniverse}
BuiltInMics == UNION {IF IsBuiltInMic(d) THEN {d} ELSE {} : d \in InputUniverse}
BluetoothOutputs == UNION {IF IsBluetoothOutput(d) THEN {d} ELSE {} : d \in OutputUniverse}


\* ------------------------------------------------ collaborator call records
\* One call the plugin makes on a collaborator: the method, the argument at the
\* call site, the argument the underlying method receives (after any patch on
\* that method rewrote it), and the plugin method that made the call.
Call(m, arg, recv, by) == [m |-> m, arg |-> arg, recv |-> recv, by |-> by]

Methods == {"getAudioInputDevices", "getAudioOutputDevices", "setAudioInputDevice",
            "setAudioOutputDevice", "postMessage"}

\* which collaborator methods throw during one event: none, or one of ms
FailChoices(ms) == {{}} \cup {{m} : m \in ms}

\* what a plugin function did: the value it leaves, the calls it made, the calls
\* that threw, and whether an exception left it (no catch block took it)
Outcome(a, cs, th) == [arg |-> a, calls |-> cs, threw |-> th, escaped |-> FALSE]

Escaping(a, cs, th) == [arg |-> a, calls |-> cs, threw |-> th, escaped |-> TRUE]

\* one statement after another: an exception that leaves the first skips the second
Then(a, b) ==
    IF a.escaped
    THEN a
    ELSE [arg |-> b.arg, calls |-> a.calls \o b.calls, threw |-> a.threw \cup b.threw,
          escaped |-> b.escaped]

\* try { ... } catch (error) { console.error(...) }
Caught(a) == [a EXCEPT !.escaped = FALSE]

\* a call of MediaEngine.m(id) by the plugin function `by`; recv is the id the
\* method receives
Command(m, id, recv, by, fail) ==
    IF m \in fail
    THEN Escaping(Null, <<Call(m, id, recv, by)>>, {m})
    ELSE Outcome(Null, <<Call(m, id, recv, by)>>, {})

\* ------------------------------------------------------------ RoutingEnforcer
\* the resolver without its try/catch
getBuiltInMicrophoneId_NoCatch(me, ins, fail) ==
    IF me = Undefined
    THEN Outcome(sDefault, << >>, {})
    ELSE LET q == <<Call("getAudioInputDevices", Null, Null, "getBuiltInMicrophoneId")>>
             i == FindIndex(ins, BuiltInMics)
         IN  IF "getAudioInputDevices" \in fail
             THEN Escaping(Null, q, {"getAudioInputDevices"})
             ELSE IF i = 0 \/ ins[i].id = sEmpty
                  THEN Outcome(sDefault, q, {})
                  ELSE Outcome(ins[i].id, q, {})

\* return builtInMic?.id || 'default', for the device found at index i (0: none)
IdOrDefault(ins, i) == IF i = 0 \/ ins[i].id = sEmpty THEN sDefault ELSE ins[i].id

getBuiltInMicrophoneId(me, ins, fail) ==
    IF me = Undefined
    THEN Outcome(sDefault, << >>, {})
    ELSE IF "getAudioInputDevices" \in fail
    THEN Outcome(sDefault,
                 <<Call("getAudioInputDevices", Null, Null, "getBuiltInMicrophoneId")>>,
                 {"getAudioInputDevices"})
    ELSE Outcome(IdOrDefault(ins, FindIndex(ins, BuiltInMics)),
                 <<Call("getAudioInputDevices", Null, Null, "getBuiltInMicrophoneId")>>,
                 {})

\* if (bluetoothOutput) MediaEngine?.setAudioOutputDevice?.(bluetoothOutput.id),
\* for the device found at index j (0: none)
SetOutput(j, outs, by, fail) ==
    IF j = 0
    THEN Outcome(Null, << >>, {})
    ELSE Command("setAudioOutputDevice", outs[j].id, outs[j].id, by, fail)

\* the output check working on a list kept from an earlier query
ensureBluetoothOutput_Cached(me, outs, fail) ==
    IF me = Undefined
    THEN Outcome(Null, << >>, {})
    ELSE LET q == <<Call("getAudioOutputDevices", Null, Null, "ensureBluetoothOutput")>>
             j == FindIndex(ScenarioOutputs, BluetoothOutputs)
         IN  IF "getAudioOutputDevices" \in fail
             THEN Outcome(Null, q, {"getAudioOutputDevices"})
             ELSE IF j = 0
                  THEN Outcome(Null, q, {})
                  ELSE Outcome(Null,
                               q \o <<Call("setAudioOutputDevice", ScenarioOutputs[j].id,
                                           ScenarioOutputs[j].id, "ensureBluetoothOutput")>>,
                               IF "setAudioOutputDevice" \in fail
                               THEN {"setAudioOutputDevice"} ELSE {})

ensureBluetoothOutput(me, outs, fail) ==
    IF me = Undefined
    THEN Outcome(Null, << >>, {})
    ELSE Caught(Then(Command("getAudioOutputDevices", Null, Null, "ensureBluetoothOutput", fail),
                     SetOutput(FindIndex(outs, BluetoothOutputs), outs,
                               "ensureBluetoothOutput", fail)))

\* -------------------------------------------------------- InterceptionPoints
\* args[0] = <r>; <e>: the argument is assigned unless an exception left r, and e
\* runs after the assignment
Rewrite(deviceId, r, e) ==
    IF r.escaped
    THEN Escaping(deviceId, r.calls, r.threw)
    ELSE [arg |-> r.arg, calls |-> r.calls \o e.calls, threw |-> r.threw \cup e.threw,
          escaped |-> e.escaped]

\* the handler without its call of ensureBluetoothOutput()
BeforeSetAudioInputDevice_NoEnsure(deviceId, me, ins, outs, fail) ==
    IF deviceId \in BluetoothIds
    THEN Rewrite(deviceId, getBuiltInMicrophoneId(me, ins, fail), Outcome(Null, << >>, {}))
    ELSE Outcome(deviceId, << >>, {})

\* before('setAudioInputDevice', AudioManager, ...)
BeforeSetAudioInputDevice(deviceId, me, ins, outs, fail) ==
    IF deviceId \in BluetoothIds
    THEN Rewrite(deviceId, getBuiltInMicrophoneId(me, ins, fail),
                 ensureBluetoothOutput(me, outs, fail))
    ELSE Outcome(deviceId, << >>, {})

\* the call-scoped handler with the output-side follow-up of the general one
BeforeSetInputDevice_WithEnsure(deviceId, me, ins, fail) ==
    IF deviceId \in BluetoothIds
    THEN Rewrite(deviceId, getBuiltInMicrophoneId(me, ins, fail),
                 ensureBluetoothOutput(me, outputDevices, fail))
    ELSE Outcome(deviceId, << >>, {})

\* before('setInputDevice', VoiceConnection.prototype, ...)
BeforeSetInputDevice(deviceId, me, ins, fail) ==
    IF deviceId \in BluetoothIds
    THEN Rewrite(deviceId, getBuiltInMicrophoneId(me, ins, fail), Outcome(Null, << >>, {}))
    ELSE Outcome(deviceId, << >>, {})

\* the patcher runs every installed before-handler of a method, each on the
\* argument list the previous one left; an exception that leaves a handler
\* ends the chain
RECURSIVE RunBeforeSetAudioInputDevice(_, _, _, _, _, _)
\* the handlers after the one that left h
RestBeforeSetAudioInputDevice(n, h, me, ins, outs, fail) ==
    Then(h, RunBeforeSetAudioInputDevice(n, h.arg, me, ins, outs, fail))

RunBeforeSetAudioInputDevice(n, deviceId, me, ins, outs, fail) ==
    IF n = 0
    THEN Outcome(deviceId, << >>, {})
    ELSE RestBeforeSetAudioInputDevice(n - 1,
             BeforeSetAudioInputDevice(deviceId, me, ins, outs, fail), me, ins, outs, fail)

RECURSIVE RunBeforeSetInputDevice(_, _, _, _, _)
RestBeforeSetInputDevice(n, h, me, ins, fail) ==
    Then(h, RunBeforeSetInputDevice(n, h.arg, me, ins, fail))

RunBeforeSetInputDevice(n, deviceId, me, ins, fail) ==
    IF n = 0
    THEN Outcome(deviceId, << >>, {})
    ELSE RestBeforeSetInputDevice(n - 1, BeforeSetInputDevice(deviceId, me, ins, fail),
                                  me, ins, fail)

\* ----------------------------------------------------------- SessionConfig
PlayAndRecord == "AVAudioSessionCategoryPlayAndRecord"
VoiceChat == "AVAudioSessionModeVoiceChat"
AllowBluetooth == "AVAudioSessionCategoryOptionAllowBluetooth"
AllowBluetoothA2DP == "AVAudioSessionCategoryOptionAllowBluetoothA2DP"
DefaultToSpeaker == "AVAudioSessionCategoryOptionDefaultToSpeaker"

NullConfig == [isNull |-> TRUE]

PlaybackConfig ==
    [category |-> "AVAudioSessionCategoryPlayback", mode |-> "AVAudioSessionModeDefault",
     categoryOptions |-> <<"AVAudioSessionCategoryOptionMixWithOthers">>,
     allowBluetoothA2DP |-> FALSE, defaultToSpeaker |-> TRUE, mixWithOthers |-> TRUE]

VideoChatConfig ==
    [category |-> PlayAndRecord, mode |-> "AVAudioSessionModeVideoChat",
     categoryOptions |-> <<DefaultToSpeaker>>,
     allowBluetoothA2DP |-> TRUE, defaultToSpeaker |-> TRUE, mixWithOthers |-> FALSE]

VoiceChatConfig ==
    [category |-> PlayAndRecord, mode |-> VoiceChat,
     categoryOptions |-> <<AllowBluetooth, AllowBluetoothA2DP>>,
     allowBluetoothA2DP |-> TRUE, defaultToSpeaker |-> FALSE, mixWithOthers |-> FALSE]

Configs == {NullConfig, PlaybackConfig, VideoChatConfig, VoiceChatConfig}

\* the payload configureIOSAudioSession posts to the native session bridge
IOSAudioSessionConfig ==
    [category |-> PlayAndRecord, mode |-> VoiceChat,
     options |-> <<AllowBluetooth, AllowBluetoothA2DP, DefaultToSpeaker>>,
     preferredInput |-> "Built-In Microphone", preferredOutput |-> "Bluetooth"]

\* -------------------------------------------------------- SessionStateGuard
NoChannel == "none"
Lookups == {"ok", "noVoiceStateStore", "noUserStore", "noCurrentUser", "throws"}

\* the guard with a catch block that answers true
isInVoiceCall_CatchTrue(lk, channel) ==
    CASE lk = "throws" -> TRUE
      [] lk \in {"noVoiceStateStore", "noUserStore"} -> FALSE
      [] lk = "noCurrentUser" -> FALSE
      [] OTHER -> channel /= NoChannel

\* lk: how the two store lookups go during this call; channel: the voice
\* channel the current user is in
isInVoiceCall(lk, channel) ==
    CASE lk = "throws" -> FALSE
      [] lk \in {"noVoiceStateStore", "noUserStore"} -> FALSE
      [] lk = "noCurrentUser" -> FALSE
      [] OTHER -> channel /= NoChannel

\* the handler without its assignment to config.mixWithOthers
BeforeConfigureAudioSession_KeepMix(config, lk, channel) ==
    IF config /= NullConfig /\ isInVoiceCall(lk, channel)
    THEN [config EXCEPT !.allowBluetoothA2DP = TRUE,
                        !.defaultToSpeaker = FALSE,
                        !.category = PlayAndRecord,
                        !.categoryOptions = <<AllowBluetooth, AllowBluetoothA2DP>>]
    ELSE config

\* before('configureAudioSession', AudioManager, ...)
BeforeConfigureAudioSession(config, lk, channel) ==
    IF config /= NullConfig /\ isInVoiceCall(lk, channel)
    THEN [config EXCEPT !.allowBluetoothA2DP = TRUE,
                        !.defaultToSpeaker = FALSE,
                        !.mixWithOthers = FALSE,
                        !.category = PlayAndRecord,
                        !.categoryOptions = <<AllowBluetooth, AllowBluetoothA2DP>>]
    ELSE config

RECURSIVE RunBeforeConfigureAudioSession(_, _, _, _)
RunBeforeConfigureAudioSession(n, config, lk, channel) ==
    IF n = 0
    THEN config
    ELSE RunBeforeConfigureAudioSession(n - 1, BeforeConfigureAudioSession(config, lk, channel),
                                        lk, channel)

\* const builtInMic = inputDevices.find(...) of enforceAudioRouting (0: undefined)
builtInMic(ins) == FindIndex(ins, EnforceMics)

\* a pass that remembers it has routed the output and leaves it alone afterwards
bluetoothOutput_Once(outs) == IF passLog = << >> THEN FindIndex(outs, BluetoothOutputs) ELSE 0

\* const bluetoothOutput = outputDevices.find(...) of enforceAudioRouting (0: undefined)
bluetoothOutput(outs) == FindIndex(outs, BluetoothOutputs)

\* MediaEngine.setAudioInputDevice(id) after the installed handlers left `hook`
ThroughHandlers(hook, id, fail) ==
    Then(hook, Command("setAudioInputDevice", id, hook.arg, "enforceAudioRouting", fail))

\* if (builtInMic) MediaEngine?.setAudioInputDevice?.(builtInMic.id), for the device
\* found at index i (0: none), through the n before-handlers installed on that
\* method of that object
SetInput(me, n, i, ins, outs, fail) ==
    IF i = 0
    THEN Outcome(Null, << >>, {})
    ELSE ThroughHandlers(RunBeforeSetAudioInputDevice(n, ins[i].id, me, ins, outs, fail),
                         ins[i].id, fail)

configureIOSAudioSession(bridge, fail) ==
    IF bridge
    THEN Command("postMessage", Null, Null, "configureIOSAudioSession", fail)
    ELSE Outcome(Null, << >>, {})

\* the device statements of enforceAudioRouting (with MediaEngine undefined, both
\* lists are [] and nothing is called)
Routing(me, n, ins, outs, fail) ==
    IF me = Undefined
    THEN Outcome(Null, << >>, {})
    ELSE Then(Command("getAudioInputDevices", Null, Null, "enforceAudioRouting", fail),
         Then(Command("getAudioOutputDevices", Null, Null, "enforceAudioRouting", fail),
         Then(SetInput(me, n, builtInMic(ins), ins, outs, fail),
              SetOutput(bluetoothOutput(outs), outs, "enforceAudioRouting", fail))))

\* enforceAudioRouting. n: the number of before-handlers installed on the method
\* the pass calls to set the input device (not 0 only when MediaEngine and
\* AudioManager are one object).
enforceAudioRouting(me, n, ins, outs, bridge, fail) ==
    Caught(Then(Routing(me, n, ins, outs, fail), configureIOSAudioSession(bridge, fail)))

\* ------------------------------------------------------------ state helpers
Handle(n, hook) == [start |-> n, hook |-> hook]
\* this.patches before the first onStart(): undefined
NoPatches == <<Handle(0, "undefined")>>

LiveCount(hook) == Cardinality({h \in live : h.hook = hook})

Resolvers ==
    {r \in [am : {Undefined, "AudioManager"},
            me : {Undefined, "AudioManager", "MediaEngine"},
            vc : {Undefined, "VoiceConnection"},
            bridge : BOOLEAN] :
        r.am = Undefined => r.me = Undefined}

\* the record of a step: everything about the last step that is not given is blank
Step(name, n, a, b, r, ci, co, lk) ==
    /\ op' = name
    /\ fired' = n
    /\ argIn' = a
    /\ argOut' = b
    /\ calls' = r.calls
    /\ threw' = r.threw
    /\ escaped' = r.escaped
    /\ UNCHANGED stack
    /\ cfgIn' = ci
    /\ cfgOut' = co
    /\ lookup' = lk

Quiet == Outcome(Null, << >>, {})

\* the record of a host call on which the handlers of `hook` left r
HandlerStep(hook, deviceId, r) ==
    Step(hook, LiveCount(hook), deviceId, r.arg, r, NullConfig, NullConfig, "ok")

\* the set-device commands among the calls of a step, in order
SetCommands(cs) ==
    SelectSeq(cs, LAMBDA c : c.m \in {"setAudioInputDevice", "setAudioOutputDevice"})

LastTwo(log) == IF Len(log) > 2 THEN SubSeq(log, Len(log) - 1, Len(log)) ELSE log

\* the record of a pass that left r
PassStep(r) ==
    /\ Step("timer", 0, Null, Null, r, NullConfig, NullConfig, "ok")
    /\ passLog' = IF r.threw = {}
                  THEN LastTwo(Append(passLog, SetCommands(r.calls)))
                  ELSE passLog

Init ==
    /\ resolver \in Resolvers
    /\ AudioManager = Undefined
    /\ MediaEngine = Undefined
    /\ VoiceConnection = Undefined
    /\ patches = NoPatches
    /\ live = {}
    /\ invoked = [h \in {} |-> 0]
    /\ starts = 0
    /\ phase = "new"
    /\ timers = 0
    /\ inputDevices = ScenarioInputs
    /\ outputDevices = ScenarioOutputs
    /\ channelId = NoChannel
    /\ op = "init"
    /\ fired = 0
    /\ argIn = Null
    /\ argOut = Null
    /\ calls = << >>
    /\ threw = {}
    /\ cfgIn = NullConfig
    /\ cfgOut = NullConfig
    /\ lookup = "ok"
    /\ escaped = FALSE
    /\ changed = FALSE
    /\ stack = << >>
    /\ passLog = << >>

\* ----------------------------------------------------------------- lifecycle
\* patchAudioRouting without its `if (!AudioManager) return`
AudioPatches_NoGuard(am, n) ==
    <<Handle(n, "setAudioInputDevice"), Handle(n, "configureAudioSession")>>

\* patchAudioRouting: the handles it pushes
AudioPatches(am, n) ==
    IF am = Undefined
    THEN << >>
    ELSE <<Handle(n, "setAudioInputDevice"), Handle(n, "configureAudioSession")>>

\* patchVoiceConnection: the handles it pushes
VoicePatches(vc, n) ==
    IF vc = Undefined
    THEN << >>
    ELSE <<Handle(n, "connect"), Handle(n, "setInputDevice")>>

OnStart ==
    /\ starts < MaxStarts
    /\ starts' = starts + 1
    /\ AudioManager' = resolver.am
    /\ MediaEngine' = resolver.me
    /\ VoiceConnection' = resolver.vc
    /\ patches' = AudioPatches(resolver.am, starts + 1) \o VoicePatches(resolver.vc, starts + 1)
    /\ live' = live \cup Range(patches')
    /\ invoked' = [h \in DOMAIN invoked \cup Range(patches') |->
                      IF h \in DOMAIN invoked THEN invoked[h] ELSE 0]
    /\ phase' = "started"
    /\ Step("onStart", 0, Null, Null, Quiet, NullConfig, NullConfig, "ok")
    /\ UNCHANGED <<resolver, timers, platform, changed, passLog>>

OnStop ==
    /\ IF patches = NoPatches
       THEN \* this.patches is undefined: forEach throws a TypeError
            /\ Step("onStop", 0, Null, Null, Escaping(Null, << >>, {"onStop"}),
                    NullConfig, NullConfig, "ok")
            /\ UNCHANGED lifecycle
       ELSE /\ live' = live \ Range(patches)
            /\ invoked' = [h \in DOMAIN invoked |->
                              invoked[h] + Cardinality({i \in 1..Len(patches) : patches[i] = h})]
            /\ patches' = << >>
            /\ phase' = "stopped"
            /\ UNCHANGED starts
            /\ Step("onStop", 0, Null, Null, Quiet, NullConfig, NullConfig, "ok")
    /\ UNCHANGED <<modules, timers, platform, changed, passLog>>

\* --------------------------------------------------------------- host events
\* the host calls AudioManager.setAudioInputDevice(deviceId)
HostSetAudioInputDevice ==
    /\ \E deviceId \in ProposedIds,
          fail \in FailChoices({"getAudioInputDevices", "getAudioOutputDevices",
                               "setAudioOutputDevice"}) :
          HandlerStep("setAudioInputDevice", deviceId,
                      RunBeforeSetAudioInputDevice(LiveCount("setAudioInputDevice"), deviceId,
                                                   MediaEngine, inputDevices, outputDevices,
                                                   fail))
    /\ UNCHANGED <<modules, lifecycle, timers, platform, changed, passLog>>

\* the host calls setInputDevice(deviceId) on a voice connection
HostSetInputDevice ==
    /\ \E deviceId \in ProposedIds, fail \in FailChoices({"getAudioInputDevices"}) :
          HandlerStep("setInputDevice", deviceId,
                      RunBeforeSetInputDevice(LiveCount("setInputDevice"), deviceId,
                                              MediaEngine, inputDevices, fail))
    /\ UNCHANGED <<modules, lifecycle, timers, platform, changed, passLog>>

\* the host calls AudioManager.configureAudioSession(config)
HostConfigureAudioSession ==
    /\ \E config \in Configs, lk \in Lookups :
          LET n == LiveCount("configureAudioSession")
          IN  Step("configureAudioSession", n, Null, Null, Quiet, config,
                   RunBeforeConfigureAudioSession(n, config, lk, channelId),
                   IF n = 0 \/ config = NullConfig THEN "ok" ELSE lk)
    /\ UNCHANGED <<modules, lifecycle, timers, platform, changed, passLog>>

\* a voice connection's connect() returns: every installed after-handler calls
\* setTimeout(..., 1000)
HostConnect ==
    /\ timers + LiveCount("connect") <= MaxTimers
    /\ timers' = timers + LiveCount("connect")
    /\ changed' = IF timers = 0 THEN FALSE ELSE changed
    /\ Step("connect", LiveCount("connect"), Null, Null, Quiet, NullConfig, NullConfig, "ok")
    /\ UNCHANGED <<modules, lifecycle, platform, passLog>>

\* a pending timer expires: the callback runs enforceAudioRouting
TimerFire ==
    /\ timers > 0
    /\ timers' = timers - 1
    /\ \E fail \in FailChoices(Methods) :
          PassStep(enforceAudioRouting(MediaEngine,
                                       IF MediaEngine = AudioManager
                                       THEN LiveCount("setAudioInputDevice")
                                       ELSE 0,
                                       inputDevices, outputDevices, resolver.bridge, fail))
    /\ UNCHANGED <<modules, lifecycle, platform, changed>>

\* the user joins or leaves a voice channel
VoiceStateChange ==
    /\ channelId' = IF channelId = NoChannel THEN "channel-1" ELSE NoChannel
    /\ Step("voiceState", 0, Null, Null, Quiet, NullConfig, NullConfig, "ok")
    /\ UNCHANGED <<modules, lifecycle, timers, inputDevices, outputDevices, changed, passLog>>

\* a list with its i-th device gone
Without(list, i) == SubSeq(list, 1, i - 1) \o SubSeq(list, i + 1, Len(list))

\* the lists one device event away from `list`: a device of U appears, or one goes
Neighbours(list, U) ==
    {Append(list, d) : d \in {u \in U : Len(list) < MaxDevs /\ u \notin Range(list)}}
        \cup {Without(list, i) : i \in 1..Len(list)}

\* the platform reports another device list, for one direction
DevicesChanged ==
    /\ \/ /\ inputDevices' \in Neighbours(inputDevices, InputUniverse)
          /\ UNCHANGED outputDevices
       \/ /\ outputDevices' \in Neighbours(outputDevices, OutputUniverse)
          /\ UNCHANGED inputDevices
    /\ passLog' = << >>
    /\ changed' = (timers > 0)
    /\ Step("devices", 0, Null, Null, Quiet, NullConfig, NullConfig, "ok")
    /\ UNCHANGED <<modules, lifecycle, timers, channelId>>

\* ------------------------------------------------------------ specifications
\* the whole plugin: lifecycle, host events, timers
Next ==
    \/ OnStart
    \/ OnStop
    \/ HostSetAudioInputDevice
    \/ HostSetInputDevice
    \/ HostConfigureAudioSession
    \/ HostConnect
    \/ TimerFire
    \/ VoiceStateChange

Spec == Init /\ [][Next]_vars

FairSpec == Spec /\ WF_vars(TimerFire)

\* the started plugin (onStart() called once or more and never onStop(), the audio
\* manager and the voice connection resolved) over every device report the
\* platform can make
InitRouting ==
    /\ resolver \in {r \in Resolvers : r.am /= Undefined /\ r.vc /= Undefined /\ r.bridge}
    /\ AudioManager = resolver.am
    /\ MediaEngine = resolver.me
    /\ VoiceConnection = resolver.vc
    /\ starts \in 1..MaxStarts
    /\ patches = AudioPatches(resolver.am, starts) \o VoicePatches(resolver.vc, starts)
    /\ live = UNION {Range(AudioPatches(resolver.am, k) \o VoicePatches(resolver.vc, k)) :
                        k \in 1..starts}
    /\ invoked = [h \in live |-> 0]
    /\ phase = "started"
    /\ timers = 0
    /\ inputDevices \in ListsOf(InputUniverse)
    /\ outputDevices \in ListsOf(OutputUniverse)
    /\ channelId = "channel-1"
    /\ op = "onStart"
    /\ fired = 0
    /\ argIn = Null
    /\ argOut = Null
    /\ calls = << >>
    /\ threw = {}
    /\ cfgIn = NullConfig
    /\ cfgOut = NullConfig
    /\ lookup = "ok"
    /\ escaped = FALSE
    /\ changed = FALSE
    /\ stack = << >>
    /\ passLog = << >>

NextRouting ==
    \/ HostSetAudioInputDevice
    \/ HostSetInputDevice
    \/ DevicesChanged

SpecRouting == InitRouting /\ [][NextRouting]_vars

\* the same started plugin: connection events and the passes they schedule
NextPasses ==
    \/ HostConnect
    \/ TimerFire
    \/ DevicesChanged

SpecPasses == InitRouting /\ [][NextPasses]_vars

\* ------------------------------------------------------------ call dispatch
\* The same events, taken one call at a time: what each function of the plugin
\* calls, and what a call of a collaborator method runs (the handlers installed
\* on that method of that object, and the method itself).
\* A call: the object (or "plugin", "handler", "native"), the function, the
\* argument at the call site and the argument passed on.
Sub(o, f, s, a) == [obj |-> o, fn |-> f, site |-> s, arg |-> a]

Frame(c, td) == [obj |-> c.obj, fn |-> c.fn, site |-> c.site, arg |-> c.arg, todo |-> td]

PluginCall(f) == Sub("plugin", f, Null, Null)
HandlerCall(hook, a) == Sub("handler", hook, Null, a)
MethodCall(o, m, a) == Sub(o, m, a, a)
NativeCall(m, s, a) == Sub("native", m, s, a)

\* the number of handlers the patcher has installed on method m of object o
Installed(o, m) ==
    IF \/ o = "AudioManager" /\ m \in {"setAudioInputDevice", "configureAudioSession"}
       \/ o = "VoiceConnection" /\ m \in {"connect", "setInputDevice"}
    THEN LiveCount(m)
    ELSE 0

\* args[0] after one handler of the hook ran on a
Rewritten(hook, a) ==
    CASE hook = "setAudioInputDevice"
           -> BeforeSetAudioInputDevice(a, MediaEngine, inputDevices, outputDevices, {}).arg
      [] hook = "setInputDevice"
           -> BeforeSetInputDevice(a, MediaEngine, inputDevices, {}).arg
      [] OTHER -> a

RECURSIVE HandlerCalls(_, _, _)
HandlerCalls(n, hook, a) ==
    IF n = 0
    THEN << >>
    ELSE <<HandlerCall(hook, a)>> \o HandlerCalls(n - 1, hook, Rewritten(hook, a))

RECURSIVE Proceeds(_, _, _)
Proceeds(n, hook, a) == IF n = 0 THEN a ELSE Proceeds(n - 1, hook, Rewritten(hook, a))

\* a patched method: before-handlers, the original, after-handlers
MethodBody(c) ==
    LET n == Installed(c.obj, c.fn)
    IN  IF c.fn = "connect"
        THEN <<NativeCall(c.fn, c.arg, c.arg)>> \o HandlerCalls(n, c.fn, c.arg)
        ELSE HandlerCalls(n, c.fn, c.arg) \o <<NativeCall(c.fn, c.arg, Proceeds(n, c.fn, c.arg))>>

HandlerBody(c) ==
    CASE c.fn = "setAudioInputDevice"
           -> IF c.arg \in BluetoothIds
              THEN <<PluginCall("getBuiltInMicrophoneId"), PluginCall("ensureBluetoothOutput")>>
              ELSE << >>
      [] c.fn = "setInputDevice"
           -> IF c.arg \in BluetoothIds THEN <<PluginCall("getBuiltInMicrophoneId")>> ELSE << >>
      [] c.fn = "configureAudioSession" -> <<PluginCall("isInVoiceCall")>>
      [] c.fn = "connect" -> <<MethodCall("window", "setTimeout", Null)>>

\* an output check that sets the input device again as well
EnsureBluetoothOutputBody_SetsInput ==
    IF MediaEngine = Undefined
    THEN << >>
    ELSE LET j == FindIndex(outputDevices, BluetoothOutputs)
         IN  <<MethodCall(MediaEngine, "getAudioOutputDevices", Null)>>
                 \o (IF j = 0
                     THEN << >>
                     ELSE <<MethodCall(MediaEngine, "setAudioOutputDevice", outputDevices[j].id)>>)
                 \o <<MethodCall(MediaEngine, "setAudioInputDevice",
                                 getBuiltInMicrophoneId(MediaEngine, inputDevices, {}).arg)>>

\* the calls of ensureBluetoothOutput
EnsureBluetoothOutputBody ==
    IF MediaEngine = Undefined
    THEN << >>
    ELSE LET j == FindIndex(outputDevices, BluetoothOutputs)
         IN  <<MethodCall(MediaEngine, "getAudioOutputDevices", Null)>>
                 \o (IF j = 0
                     THEN << >>
                     ELSE <<MethodCall(MediaEngine, "setAudioOutputDevice", outputDevices[j].id)>>)

\* the calls of enforceAudioRouting
EnforceAudioRoutingBody ==
    IF MediaEngine = Undefined
    THEN <<PluginCall("configureIOSAudioSession")>>
    ELSE LET i == builtInMic(inputDevices)
             j == bluetoothOutput(outputDevices)
         IN  <<MethodCall(MediaEngine, "getAudioInputDevices", Null),
               MethodCall(MediaEngine, "getAudioOutputDevices", Null)>>
                 \o (IF i = 0
                     THEN << >>
                     ELSE <<MethodCall(MediaEngine, "setAudioInputDevice", inputDevices[i].id)>>)
                 \o (IF j = 0
                     THEN << >>
                     ELSE <<MethodCall(MediaEngine, "setAudioOutputDevice", outputDevices[j].id)>>)
                 \o <<PluginCall("configureIOSAudioSession")>>

PluginBody(c) ==
    CASE c.fn = "getBuiltInMicrophoneId"
           -> IF MediaEngine = Undefined
              THEN << >>
              ELSE <<MethodCall(MediaEngine, "getAudioInputDevices", Null)>>
      [] c.fn = "ensureBluetoothOutput" -> EnsureBluetoothOutputBody
      [] c.fn = "enforceAudioRouting" -> EnforceAudioRoutingBody
      [] c.fn = "configureIOSAudioSession"
           -> IF resolver.bridge
              THEN <<MethodCall("audioSession", "postMessage", Null)>>
              ELSE << >>
      [] c.fn = "isInVoiceCall"
           -> <<MethodCall("UserStore", "getCurrentUser", Null),
                MethodCall("VoiceStateStore", "getVoiceStateForUser", Null)>>
      [] c.fn = "timer" -> <<PluginCall("enforceAudioRouting")>>

\* the calls a call makes, in order
Body(c) ==
    CASE c.obj = "native" -> << >>
      [] c.obj = "handler" -> HandlerBody(c)
      [] c.obj = "plugin" -> PluginBody(c)
      [] OTHER -> MethodBody(c)

\* the calls the host makes on the patched methods
HostCalls ==
    {MethodCall("AudioManager", "setAudioInputDevice", id) : id \in ProposedIds}
        \cup {MethodCall("VoiceConnection", "setInputDevice", id) : id \in ProposedIds}
        \cup {MethodCall("AudioManager", "configureAudioSession", Null),
              MethodCall("VoiceConnection", "connect", Null)}

\* the frames of the plugin's own code on the stack
PluginFrames(st) == {k \in 1..Len(st) : st[k].obj \in {"plugin", "handler"}}

\* the plugin function a call on the stack st is made by
MadeBy(st) == st[CHOOSE k \in PluginFrames(st) : \A l \in PluginFrames(st) : l <= k].fn

\* a function that has no call left to make returns, and so does its caller
RECURSIVE Settle(_)
Settle(st) ==
    IF st /= << >> /\ st[Len(st)].todo = << >>
    THEN Settle(SubSeq(st, 1, Len(st) - 1))
    ELSE st

\* the host calls a patched method of the started plugin
DispatchHostCall ==
    /\ stack = << >>
    /\ op = "onStart"
    /\ \E c \in HostCalls :
          /\ c.fn = "connect" => timers + LiveCount("connect") <= MaxTimers
          /\ stack' = <<Frame(c, MethodBody(c))>>
          /\ op' = c.fn
          /\ fired' = Installed(c.obj, c.fn)
          /\ argIn' = c.arg
    /\ argOut' = Null
    /\ calls' = << >>
    /\ UNCHANGED <<modules, lifecycle, timers, platform, threw, cfgIn, cfgOut, lookup,
                   escaped, changed, passLog>>

\* a pending timer expires and its callback starts
DispatchTimer ==
    /\ stack = << >>
    /\ timers > 0
    /\ timers' = timers - 1
    /\ stack' = <<Frame(PluginCall("timer"), Body(PluginCall("timer")))>>
    /\ op' = "timer"
    /\ fired' = 0
    /\ argIn' = Null
    /\ argOut' = Null
    /\ calls' = << >>
    /\ UNCHANGED <<modules, lifecycle, platform, threw, cfgIn, cfgOut, lookup,
                   escaped, changed, passLog>>

\* the running function makes its next call
FrameStep ==
    /\ stack /= << >>
    /\ LET d == Len(stack)
           top == stack[d]
           c == Head(top.todo)
           below == SubSeq(stack, 1, d - 1) \o <<[top EXCEPT !.todo = Tail(@)]>>
       IN  /\ stack' = Settle(below \o <<Frame(c, Body(c))>>)
           /\ timers' = IF c.obj = "native" /\ c.fn = "setTimeout" THEN timers + 1 ELSE timers
           /\ argOut' = IF c.obj = "native" /\ d = 1 THEN c.arg ELSE argOut
           /\ calls' = IF c.obj = "native" /\ c.fn \in Methods /\ PluginFrames(stack) /= {}
                       THEN Append(calls, Call(c.fn, c.site, c.arg, MadeBy(stack)))
                       ELSE calls
    /\ UNCHANGED <<modules, lifecycle, platform, op, fired, argIn, threw, cfgIn, cfgOut,
                   lookup, escaped, changed, passLog>>

\* one host event from the started plugin, whatever the platform reports, and the
\* passes that event schedules
NextDispatch ==
    \/ DispatchHostCall
    \/ DispatchTimer
    \/ FrameStep

SpecDispatch == InitRouting /\ [][NextDispatch]_vars

\* -------------------------------------------------------------------- claims
\* the positions, in the calls of the last step, of the calls of method m
CallsOf(m) == {i \in 1..Len(calls) : calls[i].m = m}

NameHasHandsFree(d) == includes(toLowerCase(d.name), kHandsFree)

\* list[i] is the first built-in microphone of the list
FirstBuiltIn(list, i) ==
    /\ i \in 1..Len(list)
    /\ IsBuiltInMic(list[i])
    /\ \A k \in 1..(i - 1) : ~IsBuiltInMic(list[k])

IsWirelessOutput(d) == isBluetoothDevice(d.id) /\ ~NameHasHandsFree(d)

\* list[j] is the first wireless output of the list that is no hands-free variant
FirstWirelessOutput(list, j) ==
    /\ j \in 1..Len(list)
    /\ IsWirelessOutput(list[j])
    /\ \A k \in 1..(j - 1) : ~IsWirelessOutput(list[k])

\* C1: once stop() has returned, no step has an effect of the plugin: no handler
\* fires, and no set-input-device command, set-output-device command or session
\* bridge message is issued, by a pass scheduled before stop() either. (Stated
\* for one start() followed by stop(), the case in which stop() unregisters
\* every handle.)
C1_NoEffectAfterStop ==
    (phase = "stopped" /\ starts = 1 /\ op /= "onStop")
        => /\ fired = 0
           /\ \A i \in 1..Len(calls) :
                 calls[i].m \notin {"setAudioInputDevice", "setAudioOutputDevice", "postMessage"}

\* C2: when stop() returns, every handle a registration ever returned has been
\* invoked exactly once and this.patches is empty.
C2_EveryHandleInvokedOnce ==
    (op = "onStop" /\ threw = {})
        => /\ patches = << >>
           /\ \A h \in DOMAIN invoked : invoked[h] = 1

\* C3: when the before-input-device-set handler fires on a wireless id, the call
\* proceeds with the id of the first built-in microphone of the input list
\* ("default" when there is none or the list cannot be queried), and
\* ensureBluetoothOutput has run, setting the output to the first wireless
\* output that is no hands-free variant when there is one.
C3_Case == op = "setAudioInputDevice" /\ fired >= 1 /\ isBluetoothDevice(argIn)

C3_InputQueried == MediaEngine /= Undefined /\ "getAudioInputDevices" \notin threw

C3_OutputQueried == MediaEngine /= Undefined /\ "getAudioOutputDevices" \notin threw

C3_RewriteAndEnsure ==
    C3_Case
        => /\ IF C3_InputQueried /\ \E i \in 1..Len(inputDevices) : FirstBuiltIn(inputDevices, i)
              THEN \E i \in 1..Len(inputDevices) :
                      FirstBuiltIn(inputDevices, i) /\ argOut = inputDevices[i].id
              ELSE argOut = sDefault
           /\ MediaEngine /= Undefined
                 => \E c \in CallsOf("getAudioOutputDevices") : calls[c].by = "ensureBluetoothOutput"
           /\ IF C3_OutputQueried /\ \E j \in 1..Len(outputDevices) : FirstWirelessOutput(outputDevices, j)
              THEN \E j \in 1..Len(outputDevices) :
                      /\ FirstWirelessOutput(outputDevices, j)
                      /\ \A c \in CallsOf("setAudioOutputDevice") :
                            /\ calls[c].arg = outputDevices[j].id
                            /\ calls[c].by = "ensureBluetoothOutput"
                      /\ CallsOf("setAudioOutputDevice") /= {}
              ELSE CallsOf("setAudioOutputDevice") = {}

C3_Witness ==
    /\ C3_Case
    /\ argIn = sBtAirpods1
    /\ argOut = sBuiltInMic
    /\ \E c \in CallsOf("setAudioOutputDevice") : calls[c].arg = sBtAirpods1

\* C4: in a pass, a failure of the input side (the input query or the
\* set-input-device command throws) does not keep the pass from attempting
\* set-output-device when the output list has a wireless candidate.
C4_OutputAttemptedDespiteInputFailure ==
    (/\ op = "timer"
     /\ threw \cap {"getAudioInputDevices", "setAudioInputDevice"} /= {}
     /\ \E j \in 1..Len(outputDevices) : FirstWirelessOutput(outputDevices, j))
        => CallsOf("setAudioOutputDevice") /= {}

\* C5: when the session-configure handler fires with a null config, or while the
\* user is in no voice channel, a store is missing or a lookup throws, the config
\* is left as it was and the plugin calls nothing.
C5_Case ==
    /\ op = "configureAudioSession"
    /\ fired >= 1
    /\ (cfgIn = NullConfig \/ lookup /= "ok" \/ channelId = NoChannel)

C5_ConfigUntouched == C5_Case => (cfgOut = cfgIn /\ calls = << >>)

C5_Witness ==
    /\ C5_Case
    /\ cfgIn = PlaybackConfig
    /\ lookup = "throws"
    /\ channelId /= NoChannel
    /\ cfgOut = PlaybackConfig

\* C6: when the session-configure handler fires with a config while the user is in
\* a voice channel, the category and the option flags are overwritten with the
\* forced values, default-to-speaker and mix-with-others are false, and the mode
\* is left as the host passed it.
C6_Case ==
    /\ op = "configureAudioSession"
    /\ fired >= 1
    /\ cfgIn /= NullConfig
    /\ lookup = "ok"
    /\ channelId /= NoChannel

C6_Forced ==
    /\ cfgOut.category = PlayAndRecord
    /\ cfgOut.categoryOptions = <<AllowBluetooth, AllowBluetoothA2DP>>
    /\ cfgOut.allowBluetoothA2DP = TRUE
    /\ cfgOut.defaultToSpeaker = FALSE
    /\ cfgOut.mixWithOthers = FALSE

C6_ForcedExceptMode == C6_Case => (C6_Forced /\ cfgOut.mode = cfgIn.mode)

\* C6 as first stated: the mode is overwritten with the forced voice-chat mode too
C6_ModeForcedToo == C6_Case => (C6_Forced /\ cfgOut.mode = VoiceChat)

C6_Witness ==
    /\ C6_Case
    /\ cfgIn = PlaybackConfig
    /\ cfgOut.category = PlayAndRecord
    /\ cfgOut.mixWithOthers = FALSE

\* C7: a pass in which nothing throws sets the input to the first built-in
\* microphone of the input list and the output to the first wireless output that
\* is no hands-free variant, and issues no command for a direction without one.
C7_FirstMatchSelection ==
    (op = "timer" /\ threw = {} /\ MediaEngine /= Undefined)
        => /\ \A i \in 1..Len(inputDevices) :
                 FirstBuiltIn(inputDevices, i)
                     => \E c \in CallsOf("setAudioInputDevice") :
                           /\ calls[c].by = "enforceAudioRouting"
                           /\ calls[c].arg = inputDevices[i].id
           /\ (~\E i \in 1..Len(inputDevices) : FirstBuiltIn(inputDevices, i))
                 => CallsOf("setAudioInputDevice") = {}
           /\ \A j \in 1..Len(outputDevices) :
                 FirstWirelessOutput(outputDevices, j)
                     => \E c \in CallsOf("setAudioOutputDevice") :
                           /\ calls[c].by = "enforceAudioRouting"
                           /\ calls[c].arg = outputDevices[j].id
           /\ (~\E j \in 1..Len(outputDevices) : FirstWirelessOutput(outputDevices, j))
                 => CallsOf("setAudioOutputDevice") = {}

\* C8: every set-output-device command of a step names a device of the reported
\* output list whose name does not contain "hands-free" (in any case), and when
\* every wireless output is a hands-free variant there is no such command.
C8_NeverHandsFree ==
    /\ \A c \in CallsOf("setAudioOutputDevice") :
          /\ \E d \in Range(outputDevices) : d.id = calls[c].arg
          /\ \A d \in Range(outputDevices) : d.id = calls[c].arg => ~NameHasHandsFree(d)
    /\ (\A d \in Range(outputDevices) : isBluetoothDevice(d.id) => NameHasHandsFree(d))
          => CallsOf("setAudioOutputDevice") = {}

C8_Witness ==
    /\ op = "timer"
    /\ outputDevices = <<OutHfp, OutPods>>
    /\ \E c \in CallsOf("setAudioOutputDevice") :
          calls[c].by = "enforceAudioRouting" /\ calls[c].arg = sBtAirpods1
    /\ \E c \in CallsOf("setAudioOutputDevice") :
          calls[c].by = "ensureBluetoothOutput" /\ calls[c].arg = sBtAirpods1

\* C9: a connection-established event on which the handler fires schedules
\* exactly one pass, and issues no command itself.
C9_OnePassPerConnect ==
    [][(op' = "connect" /\ fired' >= 1) => (timers' = timers + 1 /\ calls' = << >>)]_vars

C11_Case == op = "setInputDevice" /\ fired >= 1 /\ isBluetoothDevice(argIn)

C11_RewriteOnly ==
    C11_Case
        => /\ IF C3_InputQueried /\ \E i \in 1..Len(inputDevices) : FirstBuiltIn(inputDevices, i)
              THEN \E i \in 1..Len(inputDevices) :
                      FirstBuiltIn(inputDevices, i) /\ argOut = inputDevices[i].id
              ELSE argOut = sDefault
           /\ \A c \in 1..Len(calls) :
                 calls[c].m = "getAudioInputDevices" /\ calls[c].by = "getBuiltInMicrophoneId"
           /\ MediaEngine /= Undefined => CallsOf("getAudioInputDevices") /= {}

C11_Witness ==
    /\ C11_Case
    /\ argIn = sBeats7
    /\ argOut = sBuiltInMic
    /\ Len(calls) = 1
    /\ \E j \in 1..Len(outputDevices) : FirstWirelessOutput(outputDevices, j)

\* C12: start() records a handle for each interception point of a module that
\* resolved (four when both did) and none for a module that did not; when no
\* collaborator resolves the plugin is inert: no handle is recorded or installed,
\* no handler fires, no timer is set, the plugin calls nothing, and every host
\* call proceeds with the arguments and the config the host passed.
C12_AudioHooks ==
    IF resolver.am = Undefined THEN {} ELSE {"setAudioInputDevice", "configureAudioSession"}

C12_VoiceHooks ==
    IF resolver.vc = Undefined THEN {} ELSE {"connect", "setInputDevice"}

C12_Inert == resolver.am = Undefined /\ resolver.me = Undefined /\ resolver.vc = Undefined

C12_RegistersWhatResolved ==
    /\ op = "onStart"
          => /\ Len(patches) = Cardinality(C12_AudioHooks \cup C12_VoiceHooks)
             /\ {patches[i].hook : i \in 1..Len(patches)} = C12_AudioHooks \cup C12_VoiceHooks
             /\ \A i \in 1..Len(patches) : patches[i].start = starts /\ patches[i] \in live
    /\ \A h \in live : h.hook \in C12_AudioHooks \cup C12_VoiceHooks
    /\ C12_Inert
          => /\ patches \in {NoPatches, << >>}
             /\ live = {}
             /\ fired = 0
             /\ timers = 0
             /\ calls = << >>
             /\ argOut = argIn
             /\ cfgOut = cfgIn

C12_Witness ==
    /\ op = "onStart"
    /\ resolver.am = Undefined
    /\ resolver.vc /= Undefined
    /\ Len(patches) = 2
    /\ live = {Handle(1, "connect"), Handle(1, "setInputDevice")}

\* C13: no exception thrown by a Media Engine query or set command, by the session
\* bridge or by a store lookup leaves the plugin's code in a handler or a pass. A
\* throwing device-list query counts as an empty list for its direction: no
\* set-device command of that direction is issued, a rewritten input id is
\* "default", and a throwing store lookup leaves the session config as the host
\* passed it; the host call proceeds.
C13_Case == op \in {"setAudioInputDevice", "setInputDevice", "configureAudioSession", "timer"}

C14_SameSearch ==
    (/\ op = "setInputDevice"
     /\ fired >= 1
     /\ isBluetoothDevice(argIn)
     /\ C3_InputQueried)
        => argOut = IF builtInMic(inputDevices) /= 0
                    THEN inputDevices[builtInMic(inputDevices)].id
                    ELSE sDefault

\* C15: one pass issues at most one set-input-device command and at most one
\* set-output-device command, counting the commands of the handlers the pass
\* itself sets off. (Stated for a plugin started once, so that each interception
\* point has one handler.)
C15_OneCommandPerDirection ==
    (op = "timer" /\ starts = 1)
        => /\ Cardinality(CallsOf("setAudioInputDevice")) <= 1
           /\ Cardinality(CallsOf("setAudioOutputDevice")) <= 1

\* C17: when the before-input-device-set handler or the before-call-scoped-input-
\* device-set handler fires on an id that is null, empty or without a wireless
\* keyword, the call proceeds with the id the host passed, and the plugin makes no
\* device query and issues no command.
HasWirelessKeyword(id) ==
    \E k \in 1..Len(bluetoothIndicators) : includes(toLowerCase(id), bluetoothIndicators[k])

C17_Case ==
    /\ op \in {"setAudioInputDevice", "setInputDevice"}
    /\ fired >= 1
    /\ (argIn = Null \/ argIn = sEmpty \/ ~HasWirelessKeyword(argIn))

C17_ArgumentsUntouched == C17_Case => (argOut = argIn /\ calls = << >>)

C17_Witness ==
    /\ C17_Case
    /\ op = "setInputDevice"
    /\ argIn = Null
    /\ argOut = Null
    /\ calls = << >>
    /\ MediaEngine /= Undefined
    /\ inputDevices /= << >>

\* C18: while the plugin is started, the id with which an intercepted
\* input-device-set call (general or call-scoped) proceeds after the handler, and
\* the id of every set-input-device command of a pass, is not classified wireless
\* by isBluetoothDevice. (Stated for a plugin started once.)
C18_InputNeverWireless ==
    (phase = "started" /\ starts = 1)
        => /\ (op \in {"setAudioInputDevice", "setInputDevice"} /\ fired >= 1)
                 => ~isBluetoothDevice(argOut)
           /\ \A c \in CallsOf("setAudioInputDevice") :
                 calls[c].by = "enforceAudioRouting" => ~isBluetoothDevice(calls[c].arg)

\* C19: the plugin alters session configuration only while the user is in a voice
\* channel: a step in which a handler overwrote the host's session config, or in
\* which a pass posted a configuration to the native session bridge, is a step
\* taken while the user is in a channel. (Stated for a plugin started once and
\* not stopped.)
C19_OnlyWhileInCall ==
    (phase = "started" /\ starts = 1)
        => /\ (op = "configureAudioSession" /\ cfgOut /= cfgIn) => channelId /= NoChannel
           /\ CallsOf("postMessage") /= {} => channelId /= NoChannel

\* C20: device lists are not kept from one query to a later one: every
\* set-device command of a step, and every rewritten argument, carries the id of
\* a device of the list the platform reports at that step (or "default" for a
\* rewritten input id), also in a pass whose timer was set before the platform
\* reported other lists.
IdsOf(list) == {list[i].id : i \in 1..Len(list)}

C20_IdsFromCurrentLists ==
    /\ \A c \in CallsOf("setAudioInputDevice") :
          /\ calls[c].arg \in IdsOf(inputDevices)
          /\ calls[c].recv \in IdsOf(inputDevices) \cup {sDefault}
    /\ \A c \in CallsOf("setAudioOutputDevice") : calls[c].arg \in IdsOf(outputDevices)
    /\ (op \in {"setAudioInputDevice", "setInputDevice"} /\ argOut /= argIn)
          => argOut \in IdsOf(inputDevices) \cup {sDefault}

C20_Witness ==
    /\ op = "timer"
    /\ changed
    /\ threw = {}
    /\ \E c \in CallsOf("setAudioInputDevice") : calls[c].by = "enforceAudioRouting"
    /\ \E c \in CallsOf("setAudioOutputDevice") : calls[c].by = "enforceAudioRouting"
    /\ \E c \in CallsOf("setAudioOutputDevice") : calls[c].by = "ensureBluetoothOutput"

\* C16: correction never loops. While an event is dispatched call by call, no
\* function or handler of the plugin is on the call stack twice (none sets itself
\* off, directly or through a command that runs into the plugin's own handlers),
\* the stack stays shallow, and the set-device commands the plugin issues for one
\* event are at most the pass's two and one per installed input handler.
C16_NoCorrectionLoop ==
    /\ \A k, l \in PluginFrames(stack) :
          (stack[k].obj = stack[l].obj /\ stack[k].fn = stack[l].fn) => k = l
    /\ Len(stack) <= 6
    /\ Len(SetCommands(calls)) <= 2 + LiveCount("setAudioInputDevice")

\* the pass's own set-input-device command has run into the plugin's handler,
\* whose output check is issuing a command
C16_Witness ==
    /\ Len(stack) = 6
    /\ stack[2].fn = "enforceAudioRouting"
    /\ stack[3].obj = "AudioManager" /\ stack[3].fn = "setAudioInputDevice"
    /\ stack[4].obj = "handler" /\ stack[4].fn = "setAudioInputDevice"
    /\ stack[5].fn = "ensureBluetoothOutput"
    /\ stack[6].fn = "setAudioOutputDevice"

====
